---------------------------- MODULE Spec2Model ----------------------------
(***************************************************************************)
(* A model of the smol front end: the prefix-notation parser               *)
(* (src/front/parse.rs) and the lowering pass to a control-flow graph of   *)
(* basic blocks (src/front/lower.rs).                                      *)
(*                                                                         *)
(* Identifiers are strings.  Syntax trees, instructions, terminators and   *)
(* translation-vector entries are records tagged by a `kind`/`tag` field.  *)
(* The literal of a Const instruction is held in field `lit` (the source   *)
(* calls it `src`, like the operand of Copy, but there it is an integer).  *)
(***************************************************************************)
EXTENDS Integers, Sequences, FiniteSets, TLC

VARIABLES
    pc,         \* position of the running operation
    decl,       \* Lower.decl
    tv,         \* Lower.tv, the translation vector
    fresh_ctr,  \* Lower.fresh_ctr
    bb_ctr,     \* Lower.bb_ctr
    stack,      \* the active lower_stmt calls that are inside an If
    prog,       \* the statements of program.stmts consumed so far
    ifs,        \* history: one record per If whose lowering has returned
    block,      \* tir::Program.block, once lower_program has returned
    input,      \* the token stream get_tokens hands to Parser::new
    tokens,     \* Parser.tokens
    result,     \* what parse returned
    tree,       \* history: the program the token stream was written from
    via         \* history: how the token stream was made

vars == <<pc, decl, tv, fresh_ctr, bb_ctr, stack, prog, ifs, block,
          input, tokens, result, tree, via>>

lowerVars == <<decl, fresh_ctr, bb_ctr, stack, prog, ifs>>
parseVars == <<input, tokens, result, tree, via>>

---------------------------------------------------------------------------
(* Bounds of the model *)

\* the number of statement nodes (nested ones included) of an input program
MaxStmts == 3

---------------------------------------------------------------------------
(* The syntax tree (Program, Stmt, Expr, BOp) *)

BOps == {"Add", "Sub", "Mul", "Div", "Lt"}

Var(x) == [kind |-> "Var", name |-> x]
Const(n) == [kind |-> "Const", val |-> n]
BinOp(op, lhs, rhs) == [kind |-> "BinOp", op |-> op, lhs |-> lhs, rhs |-> rhs]
Negate(e) == [kind |-> "Negate", e |-> e]

Assign(dst, e) == [kind |-> "Assign", dst |-> dst, e |-> e]
SPrint(e) == [kind |-> "Print", e |-> e]
Read(x) == [kind |-> "Read", x |-> x]
If(guard, tt, ff) == [kind |-> "If", guard |-> guard, tt |-> tt, ff |-> ff]

---------------------------------------------------------------------------
(* The intermediate representation (Instruction, Terminator, Block) and    *)
(* the entries of the translation vector                                   *)

ICopy(dst, src) == [kind |-> "Copy", dst |-> dst, src |-> src]
IPrint(x) == [kind |-> "Print", x |-> x]
IRead(x) == [kind |-> "Read", x |-> x]
IConst(dst, n) == [kind |-> "Const", dst |-> dst, lit |-> n]
IArith(op, dst, lhs, rhs) ==
    [kind |-> "Arith", op |-> op, dst |-> dst, lhs |-> lhs, rhs |-> rhs]

Jump(l) == [kind |-> "Jump", target |-> l]
Branch(guard, tt, ff) == [kind |-> "Branch", guard |-> guard, tt |-> tt, ff |-> ff]
Exit == [kind |-> "Exit"]

Block(ins, term) == [insn |-> ins, term |-> term]

Label(l) == [tag |-> "Label", id |-> l]
Inner(i) == [tag |-> "Inner", ins |-> i]
Term(t) == [tag |-> "Term", term |-> t]

---------------------------------------------------------------------------
(* The lowering context and fresh names *)

\* Lower::new
NewLower == [decl |-> {}, tv |-> <<>>, fresh_ctr |-> 0, bb_ctr |-> 0]

\* the context held in the state variables
Ctx == [decl |-> decl, tv |-> tv, fresh_ctr |-> fresh_ctr, bb_ctr |-> bb_ctr]

add_decl(c, x) == [c EXCEPT !.decl = @ \cup {x}]

\* self.tv.push(entry)
push(c, entry) == [c EXCEPT !.tv = Append(@, entry)]

\* format!("{prefix}_{}", n)
VarName(prefix, n) == prefix \o "_" \o ToString(n)

\* mk_var with the increment of fresh_ctr lost
mk_var_stale(c, prefix) ==
    LET x == VarName(prefix, c.fresh_ctr + 1)
    IN  [ctx |-> [c EXCEPT !.decl = @ \cup {x}], id |-> x]

\* mk_var without the insertion into decl
mk_var_undeclared(c, prefix) ==
    LET n == c.fresh_ctr + 1
    IN  [ctx |-> [c EXCEPT !.fresh_ctr = n], id |-> VarName(prefix, n)]

mk_var(c, prefix) ==
    LET n == c.fresh_ctr + 1
        x == VarName(prefix, n)
    IN  [ctx |-> [c EXCEPT !.fresh_ctr = n, !.decl = @ \cup {x}], id |-> x]

\* format!("lbl{}", n)
LabelName(n) == "lbl" \o ToString(n)

\* mk_label with the increment of bb_ctr lost
mk_label_stale(c) == [ctx |-> c, id |-> LabelName(c.bb_ctr + 1)]

mk_label(c) ==
    LET n == c.bb_ctr + 1
    IN  [ctx |-> [c EXCEPT !.bb_ctr = n], id |-> LabelName(n)]

---------------------------------------------------------------------------
(* Expression lowering *)

\* the form lower_expr rewrites Negate(e) to
\* the desugaring with its operands exchanged, e - 0
NegateDesugar_swapped(e) == BinOp("Sub", e, Const(0))

NegateDesugar(e) == BinOp("Sub", Const(0), e)

RECURSIVE lower_expr(_, _)
lower_expr(c, e) ==
    CASE e.kind = "Var" ->
            [ctx |-> add_decl(c, e.name), id |-> e.name]
      [] e.kind = "Const" ->
            LET m == mk_var(c, "_const")
            IN  [ctx |-> push(m.ctx, Inner(IConst(m.id, e.val))), id |-> m.id]
      [] e.kind = "BinOp" ->
            LET l == lower_expr(c, e.lhs)
                r == lower_expr(l.ctx, e.rhs)
                m == mk_var(r.ctx, "_t")
            IN  [ctx |-> push(m.ctx, Inner(IArith(e.op, m.id, l.id, r.id))),
                 id |-> m.id]
      [] e.kind = "Negate" ->
            lower_expr(c, NegateDesugar(e.e))

---------------------------------------------------------------------------
(* CFG construction *)

EmptyMap == <<>>

\* BTreeMap::insert: a later insertion under the same key replaces the block
MapInsert(g, k, v) == [x \in (DOMAIN g) \cup {k} |-> IF x = k THEN v ELSE g[x]]

\* cfg_step with the buffer cleared at every Label
cfg_step_flush(st, channel) ==
    CASE channel.tag = "Label" ->
            [st EXCEPT !.curr_block = channel.id, !.insn = <<>>]
      [] channel.tag = "Inner" ->
            [st EXCEPT !.insn = Append(@, channel.ins)]
      [] channel.tag = "Term" ->
            [st EXCEPT !.grammar = MapInsert(@, st.curr_block,
                                             Block(st.insn, channel.term)),
                       !.insn = <<>>]

\* one iteration of the loop of construct_cfg
cfg_step(st, channel) ==
    CASE channel.tag = "Label" ->
            [st EXCEPT !.curr_block = channel.id]
      [] channel.tag = "Inner" ->
            [st EXCEPT !.insn = Append(@, channel.ins)]
      [] channel.tag = "Term" ->
            [st EXCEPT !.grammar = MapInsert(@, st.curr_block,
                                             Block(st.insn, channel.term)),
                       !.insn = <<>>]

RECURSIVE cfg_scan(_, _, _)
cfg_scan(st, v, i) ==
    IF i > Len(v) THEN st ELSE cfg_scan(cfg_step(st, v[i]), v, i + 1)

construct_cfg(v) ==
    IF v = <<>> \/ v[1].tag # "Label"
    THEN EmptyMap
    ELSE cfg_scan([curr_block |-> v[1].id, insn |-> <<>>, grammar |-> EmptyMap],
                  v, 2).grammar

---------------------------------------------------------------------------
(* The inputs of the lowering pass: the statements and expressions the     *)
(* driver may meet                                                         *)

UserVars == {"x", "y"}

\* right-hand sides of Assign
AssignExprs == {BinOp("Add", Var("y"), Const(3)), Var("y")}
\* operands of Print
PrintExprs == {Const(0), Negate(Var("x"))}
\* guards of If
Guards == {Var("x"), BinOp("Lt", Var("y"), Const(3))}

---------------------------------------------------------------------------
(* Statement lowering, as a machine: lower_program walks program.stmts,    *)
(* lower_stmt recurses into the branches of an If.  `stack` holds one      *)
(* frame per lower_stmt call that is inside its true or false branch.  The *)
(* input program is revealed statement by statement as the walk meets it.  *)

\* the label of the block that is open at the end of v
CurrLabel(v) ==
    LET I == {i \in 1..Len(v) : v[i].tag = "Label"}
    IN  v[CHOOSE i \in I : \A j \in I : j <= i].id

RECURSIVE CountStmts(_)
CountStmts(ss) ==
    IF ss = <<>> THEN 0
    ELSE LET s == Head(ss)
         IN  (IF s.kind = "If" THEN 1 + CountStmts(s.tt) + CountStmts(s.ff) ELSE 1)
             + CountStmts(Tail(ss))

RECURSIVE CountFrames(_)
CountFrames(fs) ==
    IF fs = <<>> THEN 0
    ELSE 1 + CountStmts(Head(fs).tt) + CountStmts(Head(fs).ff) + CountFrames(Tail(fs))

\* statement nodes met so far
Met == CountStmts(prog) + CountFrames(stack)

\* the statement s has been lowered: it is part of the list being walked
Consumed(s) ==
    IF stack = <<>>
    THEN /\ prog' = Append(prog, s)
         /\ stack' = stack
    ELSE /\ prog' = prog
         /\ stack' = [stack EXCEPT ![Len(stack)] =
                        IF @.stage = "tt" THEN [@ EXCEPT !.tt = Append(@, s)]
                                          ELSE [@ EXCEPT !.ff = Append(@, s)]]

SetCtx(c) ==
    /\ decl' = c.decl
    /\ tv' = c.tv
    /\ fresh_ctr' = c.fresh_ctr
    /\ bb_ctr' = c.bb_ctr

Init ==
    /\ pc = "new"
    /\ decl = NewLower.decl
    /\ tv = NewLower.tv
    /\ fresh_ctr = NewLower.fresh_ctr
    /\ bb_ctr = NewLower.bb_ctr
    /\ stack = <<>>
    /\ prog = <<>>
    /\ ifs = <<>>
    /\ block = EmptyMap
    /\ input = <<>> /\ tokens = <<>> /\ result = [ok |-> FALSE, err |-> ""]
    /\ tree = <<>> /\ via = ""

\* lower_program: open the entry block
OpenEntry ==
    /\ pc = "new"
    /\ SetCtx(push(Ctx, Label("entry")))
    /\ pc' = "stmts"
    /\ UNCHANGED <<stack, prog, ifs, block, parseVars>>

\* lower_stmt, Stmt::Assign
LowerAssign ==
    /\ pc = "stmts" /\ Met < MaxStmts
    /\ \E dst \in UserVars, e \in AssignExprs :
          LET c1 == add_decl(Ctx, dst)
              r == lower_expr(c1, e)
          IN  /\ SetCtx(push(r.ctx, Inner(ICopy(dst, r.id))))
              /\ Consumed(Assign(dst, e))
    /\ UNCHANGED <<pc, ifs, block, parseVars>>

\* lower_stmt, Stmt::Print
LowerPrint ==
    /\ pc = "stmts" /\ Met < MaxStmts
    /\ \E e \in PrintExprs :
          LET r == lower_expr(Ctx, e)
          IN  /\ SetCtx(push(r.ctx, Inner(IPrint(r.id))))
              /\ Consumed(SPrint(e))
    /\ UNCHANGED <<pc, ifs, block, parseVars>>

\* lower_stmt, Stmt::Read
LowerRead ==
    /\ pc = "stmts" /\ Met < MaxStmts
    /\ \E x \in UserVars :
          /\ SetCtx(push(add_decl(Ctx, x), Inner(IRead(x))))
          /\ Consumed(Read(x))
    /\ UNCHANGED <<pc, ifs, block, parseVars>>

\* if_open with the true label in both arms of the Branch
if_open_one_arm(c, guard) ==
    LET l1 == mk_label(c)
        l2 == mk_label(l1.ctx)
        l3 == mk_label(l2.ctx)
        g == lower_expr(l3.ctx, guard)
        c1 == push(g.ctx, Term(Branch(g.id, l1.id, l1.id)))
    IN  [ctx |-> push(c1, Label(l1.id)),
         lbl_tt |-> l1.id, lbl_ff |-> l2.id, lbl_join |-> l3.id,
         guard_id |-> g.id,
         guard_insn |-> [i \in 1..(Len(g.ctx.tv) - Len(c.tv)) |->
                            g.ctx.tv[Len(c.tv) + i].ins]]

\* lower_stmt, Stmt::If: three labels, the guard, the Branch that closes the
\* caller's block, and the true label
if_open(c, guard) ==
    LET l1 == mk_label(c)
        l2 == mk_label(l1.ctx)
        l3 == mk_label(l2.ctx)
        g == lower_expr(l3.ctx, guard)
        c1 == push(g.ctx, Term(Branch(g.id, l1.id, l2.id)))
    IN  [ctx |-> push(c1, Label(l1.id)),
         lbl_tt |-> l1.id, lbl_ff |-> l2.id, lbl_join |-> l3.id,
         guard_id |-> g.id,
         \* history: the instructions the guard produced
         guard_insn |-> [i \in 1..(Len(g.ctx.tv) - Len(c.tv)) |->
                            g.ctx.tv[Len(c.tv) + i].ins]]

\* if_else with the true branch jumping to the false label
if_else_to_ff(c, lbl_ff, lbl_join) ==
    push(push(c, Term(Jump(lbl_ff))), Label(lbl_ff))

\* lower_stmt, Stmt::If: close the true branch, open the false label
if_else(c, lbl_ff, lbl_join) ==
    push(push(c, Term(Jump(lbl_join))), Label(lbl_ff))

\* if_join without the Jump that closes the false branch
if_join_no_jump(c, lbl_join) == push(c, Label(lbl_join))

\* lower_stmt, Stmt::If: close the false branch, open the join label
if_join(c, lbl_join) ==
    push(push(c, Term(Jump(lbl_join))), Label(lbl_join))

\* lower_stmt, Stmt::If, up to the walk of the true branch
LowerIf ==
    /\ pc = "stmts" /\ Met < MaxStmts
    /\ \E guard \in Guards :
          LET o == if_open(Ctx, guard)
          IN  /\ SetCtx(o.ctx)
              /\ stack' = Append(stack,
                    [stage |-> "tt", lbl_tt |-> o.lbl_tt, lbl_ff |-> o.lbl_ff,
                     lbl_join |-> o.lbl_join, guard_id |-> o.guard_id,
                     \* history: the If being lowered and where it began
                     guard |-> guard, tt |-> <<>>, ff |-> <<>>,
                     open |-> CurrLabel(tv), bb |-> bb_ctr,
                     guard_insn |-> o.guard_insn, tt_end |-> ""])
    /\ UNCHANGED <<pc, prog, ifs, block, parseVars>>

\* lower_stmt, Stmt::If: the true branch is walked, open the false branch
LowerIfElse ==
    /\ pc = "stmts" /\ stack # <<>> /\ stack[Len(stack)].stage = "tt"
    /\ LET f == stack[Len(stack)]
       IN  /\ SetCtx(if_else(Ctx, f.lbl_ff, f.lbl_join))
           /\ stack' = [stack EXCEPT ![Len(stack)] =
                          [@ EXCEPT !.stage = "ff", !.tt_end = CurrLabel(tv)]]
    /\ UNCHANGED <<pc, prog, ifs, block, parseVars>>

\* lower_stmt, Stmt::If: the false branch is walked, open the join block
LowerIfJoin ==
    /\ pc = "stmts" /\ stack # <<>> /\ stack[Len(stack)].stage = "ff"
    /\ LET f == stack[Len(stack)]
           s == If(f.guard, f.tt, f.ff)
           rest == SubSeq(stack, 1, Len(stack) - 1)
       IN  /\ SetCtx(if_join(Ctx, f.lbl_join))
           /\ ifs' = Append(ifs,
                 [open |-> f.open, bb |-> f.bb, lbl_tt |-> f.lbl_tt,
                  lbl_ff |-> f.lbl_ff, lbl_join |-> f.lbl_join,
                  guard_id |-> f.guard_id, guard_insn |-> f.guard_insn,
                  tt_end |-> f.tt_end, ff_end |-> CurrLabel(tv)])
           /\ IF rest = <<>>
              THEN /\ prog' = Append(prog, s)
                   /\ stack' = rest
              ELSE /\ prog' = prog
                   /\ stack' = [rest EXCEPT ![Len(rest)] =
                         IF @.stage = "tt" THEN [@ EXCEPT !.tt = Append(@, s)]
                                           ELSE [@ EXCEPT !.ff = Append(@, s)]]
    /\ UNCHANGED <<pc, block, parseVars>>

\* lower_program: program.stmts is walked; close the last block, build the CFG
CloseProgram ==
    /\ pc = "stmts" /\ stack = <<>>
    /\ LET c1 == push(Ctx, Term(Exit))
       IN  /\ SetCtx(c1)
           /\ block' = construct_cfg(c1.tv)
    /\ pc' = "done"
    /\ UNCHANGED <<stack, prog, ifs, parseVars>>

Next ==
    \/ OpenEntry
    \/ LowerAssign
    \/ LowerPrint
    \/ LowerRead
    \/ LowerIf
    \/ LowerIfElse
    \/ LowerIfJoin
    \/ CloseProgram

Spec == Init /\ [][Next]_vars

---------------------------------------------------------------------------
(* Properties of the lowering pass *)

RECURSIVE CountIfs(_)
CountIfs(ss) ==
    IF ss = <<>> THEN 0
    ELSE LET s == Head(ss)
         IN  (IF s.kind = "If" THEN 1 + CountIfs(s.tt) + CountIfs(s.ff) ELSE 0)
             + CountIfs(Tail(ss))

Labels(v) == {i \in 1..Len(v) : v[i].tag = "Label"}
Inners(v) == {i \in 1..Len(v) : v[i].tag = "Inner"}
Terms(v) == {i \in 1..Len(v) : v[i].tag = "Term"}

\* C1: the mapping lower returns holds "entry" and three blocks per If node
\* of the program, 1 + 3*N blocks in all.
C1_BlockCount ==
    pc = "done" =>
        /\ "entry" \in DOMAIN block
        /\ Cardinality(DOMAIN block) = 1 + 3 * CountIfs(prog)

\* an If with both branches empty nested in an If, after lowering
C1_Witness ==
    /\ pc = "done"
    /\ \E i \in 1..Len(prog) :
          /\ prog[i].kind = "If"
          /\ \E j \in 1..Len(prog[i].tt) :
                /\ prog[i].tt[j].kind = "If"
                /\ prog[i].tt[j].tt = <<>>
                /\ prog[i].tt[j].ff = <<>>

IsSuffix(a, b) ==
    /\ Len(a) <= Len(b)
    /\ \A i \in 1..Len(a) : a[i] = b[Len(b) - Len(a) + i]

\* C2: the three labels of an If carry consecutive counter values in the
\* order true, false, join; the block open when the If was reached holds the
\* guard's instructions last and ends with the Branch; the blocks open at the
\* end of either branch end with Jump(join); the join block is opened last
\* and closed by the caller: by a later If's Branch, by the Jump of the
\* enclosing If, or by the final Exit.
C2_IfShape ==
    /\ \A k \in 1..Len(stack) :
          \* an If in progress has not opened its join block
          /\ \A i \in Labels(tv) : tv[i].id # stack[k].lbl_join
          /\ \E i \in Labels(tv) : tv[i].id = stack[k].lbl_tt
    /\ \A k \in 1..Len(ifs) :
          \E i \in Labels(tv) : tv[i].id = ifs[k].lbl_join
    /\ pc = "done" =>
          \A k \in 1..Len(ifs) :
             LET r == ifs[k]
             IN  /\ r.lbl_tt = LabelName(r.bb + 1)
                 /\ r.lbl_ff = LabelName(r.bb + 2)
                 /\ r.lbl_join = LabelName(r.bb + 3)
                 /\ {r.open, r.tt_end, r.ff_end, r.lbl_join} \subseteq DOMAIN block
                 /\ block[r.open].term = Branch(r.guard_id, r.lbl_tt, r.lbl_ff)
                 /\ IsSuffix(r.guard_insn, block[r.open].insn)
                 /\ block[r.tt_end].term = Jump(r.lbl_join)
                 /\ block[r.ff_end].term = Jump(r.lbl_join)
                 /\ \/ block[r.lbl_join].term = Exit
                    \/ \E m \in 1..Len(ifs) :
                          /\ ifs[m].open = r.lbl_join
                          /\ block[r.lbl_join].term =
                                Branch(ifs[m].guard_id, ifs[m].lbl_tt, ifs[m].lbl_ff)
                    \/ \E m \in 1..Len(ifs) :
                          /\ r.lbl_join \in {ifs[m].tt_end, ifs[m].ff_end}
                          /\ block[r.lbl_join].term = Jump(ifs[m].lbl_join)

\* an If whose guard produced instructions and whose true branch ended in
\* another block than it began in, after lowering
C2_Witness ==
    /\ pc = "done"
    /\ \E k \in 1..Len(ifs) :
          /\ ifs[k].guard_insn # <<>>
          /\ ifs[k].tt_end # ifs[k].lbl_tt

\* the entries of v that introduce a temporary
Temps(v) == {i \in Inners(v) : v[i].ins.kind \in {"Const", "Arith"}}

\* C3: no two temporaries introduced by Const or Arith instructions are
\* equal, the two kinds drawing on one counter, and no two block labels are
\* equal.
C3_FreshNames ==
    /\ \A i, j \in Temps(tv) : i # j => tv[i].ins.dst # tv[j].ins.dst
    /\ \A i, j \in Labels(tv) : i # j => tv[i].id # tv[j].id
    /\ Cardinality({tv[i].ins.dst : i \in Temps(tv)}) = fresh_ctr

\* temporaries and labels generated inside a nested If
C3_Witness ==
    /\ Len(stack) >= 2
    /\ fresh_ctr >= 4
    /\ \E i \in Temps(tv) : tv[i].ins.kind = "Const"
    /\ \E i \in Temps(tv) : tv[i].ins.kind = "Arith"

RECURSIVE SumInsn(_, _)
SumInsn(g, S) ==
    IF S = {} THEN 0
    ELSE LET k == CHOOSE k \in S : TRUE
         IN  Len(g[k].insn) + SumInsn(g, S \ {k})

\* the entries of v between p and q, both excluded, that are instructions
InnerBetween(v, p, q) ==
    LET I == {i \in Inners(v) : p < i /\ i < q}
        nth[n \in 1..Cardinality(I)] ==
            CHOOSE i \in I : Cardinality({j \in I : j <= i}) = n
    IN  [n \in 1..Cardinality(I) |-> v[nth[n]].ins]

\* C4: the translation vector never has two Label entries without a Term
\* between them nor two Term entries without a Label between them; complete,
\* it has the shape (Label Inner* Term)+ from Label("entry") to Term(Exit).
\* So every instruction is in the block of the Label before it, no block is
\* overwritten, and the blocks' instruction counts sum to the Inner entries.
C4_VectorShape ==
    /\ \A i \in Labels(tv) : i = 1 \/ tv[i - 1].tag = "Term"
    /\ \A i \in Terms(tv) : i = Len(tv) \/ tv[i + 1].tag = "Label"
    /\ pc # "new" => tv[1] = Label("entry")
    /\ pc = "done" =>
          /\ tv[Len(tv)] = Term(Exit)
          /\ \A p \in Labels(tv) :
                LET q == CHOOSE q \in Terms(tv) :
                            q > p /\ \A t \in Terms(tv) : t > p => q <= t
                IN  /\ tv[p].id \in DOMAIN block
                    /\ block[tv[p].id] = Block(InnerBetween(tv, p, q), tv[q].term)
          /\ Cardinality(DOMAIN block) = Cardinality(Terms(tv))
          /\ SumInsn(block, DOMAIN block) = Cardinality(Inners(tv))

\* a lowered program with an If whose blocks hold instructions
C4_Witness ==
    /\ pc = "done"
    /\ Cardinality(Labels(tv)) >= 4
    /\ \E k \in DOMAIN block : k # "entry" /\ Len(block[k].insn) >= 2

\* the program of one statement, Assign(x, BinOp{Add, Var(y), Const(3)})
AssignSum == <<Assign("x", BinOp("Add", Var("y"), Const(3)))>>

\* the single block that program lowers to
AssignSumBlock ==
    [l \in {"entry"} |->
        Block(<<IConst("_const_1", 3),
                IArith("Add", "_t_2", "y", "_const_1"),
                ICopy("x", "_t_2")>>, Exit)]

\* C5 as stated: lowering Assign(x, BinOp{Add, Var(y), Const(3)}) declares
\* exactly x, y and one generated constant temporary, three identifiers, and
\* gives the single block "entry" with [Const, Arith, Copy] and Exit.
C5_ThreeDeclared ==
    (pc = "done" /\ prog = AssignSum) =>
        /\ decl = {"x", "y", "_const_1"}
        /\ Cardinality(decl) = 3
        /\ block = AssignSumBlock

\* C5, amended: the declared set also holds the temporary of the Arith
\* instruction: it is {x, y, _const_1, _t_2}, four identifiers; the block is
\* as stated.
C5_FourDeclared ==
    (pc = "done" /\ prog = AssignSum) =>
        /\ decl = {"x", "y", "_const_1", "_t_2"}
        /\ Cardinality(decl) = 4
        /\ block = AssignSumBlock

\* that program, lowered
C5_Witness ==
    /\ pc = "done"
    /\ prog = AssignSum

Leaves == {Var("x"), Var("y"), Const(0), Const(3)}

\* the operands negation is tried on
NegExprs ==
    Leaves
    \cup {BinOp(op, Var("x"), Const(3)) : op \in BOps}
    \cup {Negate(a) : a \in Leaves}
    \cup {Negate(Negate(Const(7))),
          BinOp("Mul", BinOp("Add", Var("x"), Const(3)),
                       BinOp("Div", Negate(Const(7)), Var("y")))}

\* C6: from any context, lowering Negate(e) appends the same entries, returns
\* the same identifier and leaves the same declared set and counters as
\* lowering BinOp{Sub, Const(0), e}: a Const instruction for 0 first, then the
\* entries of e, then one Arith{Sub, dst, const_temp, e_result}, and nothing
\* but Const and Arith instructions.
C6_NegateIsZeroMinus ==
    pc = "stmts" =>
        \A e \in NegExprs :
            LET a == lower_expr(Ctx, Negate(e))
                b == lower_expr(Ctx, BinOp("Sub", Const(0), e))
                c0 == VarName("_const", fresh_ctr + 1)
                zero == [Ctx EXCEPT !.fresh_ctr = fresh_ctr + 1,
                                    !.decl = @ \cup {c0},
                                    !.tv = Append(@, Inner(IConst(c0, 0)))]
                r == lower_expr(zero, e)
                dst == VarName("_t", r.ctx.fresh_ctr + 1)
            IN  /\ a = b
                /\ a.id = dst
                /\ a.ctx.tv = Append(r.ctx.tv, Inner(IArith("Sub", dst, c0, r.id)))
                /\ a.ctx.decl = r.ctx.decl \cup {dst}
                /\ a.ctx.fresh_ctr = r.ctx.fresh_ctr + 1
                /\ a.ctx.bb_ctr = bb_ctr
                /\ \A i \in (Len(tv) + 1)..Len(a.ctx.tv) :
                      /\ a.ctx.tv[i].tag = "Inner"
                      /\ a.ctx.tv[i].ins.kind \in {"Const", "Arith"}

\* a context reached by lowering Print(Negate(Var(x))) inside an If
C6_Witness ==
    /\ pc = "stmts"
    /\ stack # <<>>
    /\ \E i \in Temps(tv) :
          /\ tv[i].ins.kind = "Arith"
          /\ tv[i].ins.op = "Sub"
          /\ tv[i].ins.rhs = "x"
          /\ tv[i - 1] = Inner(IConst(tv[i].ins.lhs, 0))

\* the labels a terminator names
Targets(t) ==
    CASE t.kind = "Jump" -> {t.target}
      [] t.kind = "Branch" -> {t.tt, t.ff}
      [] t.kind = "Exit" -> {}

\* the blocks of g reachable from the blocks S by following terminators
RECURSIVE Reach(_, _)
Reach(g, S) ==
    LET T == S \cup UNION {Targets(g[k].term) \cap DOMAIN g : k \in S}
    IN  IF T = S THEN S ELSE Reach(g, T)

\* C10: the graph is closed and rooted at "entry": "entry" is a key, every
\* label a terminator names is a key, every block is reachable from "entry",
\* and exactly one block ends in Exit: "entry" when the program has no
\* top-level If, else the join block of the last top-level If.
C10_ClosedRooted ==
    pc = "done" =>
        /\ "entry" \in DOMAIN block
        /\ \A k \in DOMAIN block : Targets(block[k].term) \subseteq DOMAIN block
        /\ Reach(block, {"entry"}) = DOMAIN block
        /\ {k \in DOMAIN block : block[k].term = Exit} =
              {IF \E i \in 1..Len(prog) : prog[i].kind = "If"
               THEN ifs[Len(ifs)].lbl_join
               ELSE "entry"}

\* a lowered program that begins with an If holding another If
C10_Witness ==
    /\ pc = "done"
    /\ Len(ifs) >= 2
    /\ Len(prog) >= 1
    /\ prog[1].kind = "If"
    /\ block[ifs[Len(ifs)].lbl_join].term = Exit

---------------------------------------------------------------------------
(* construct_cfg on translation vectors of any shape *)

\* the longest vector handed to construct_cfg
MaxTv == 6

\* the entries such a vector is made of
TvEntries ==
    {Label("a"), Label("b"),
     Inner(IRead("x")), Inner(IPrint("x")),
     Term(Exit), Term(Jump("a"))}

CfgInit ==
    /\ pc = "vector"
    /\ tv = <<>>
    /\ block = EmptyMap
    /\ decl = {} /\ fresh_ctr = 0 /\ bb_ctr = 0
    /\ stack = <<>> /\ prog = <<>> /\ ifs = <<>>
    /\ input = <<>> /\ tokens = <<>> /\ result = [ok |-> FALSE, err |-> ""]
    /\ tree = <<>> /\ via = ""

\* the caller makes the vector one entry longer
PushEntry ==
    /\ pc = "vector" /\ Len(tv) < MaxTv
    /\ \E entry \in TvEntries : tv' = Append(tv, entry)
    /\ UNCHANGED <<pc, block, lowerVars, parseVars>>

\* construct_cfg(tv)
ConstructCfg ==
    /\ pc = "vector"
    /\ block' = construct_cfg(tv)
    /\ pc' = "built"
    /\ UNCHANGED <<tv, lowerVars, parseVars>>

CfgNext ==
    \/ PushEntry
    \/ ConstructCfg

CfgSpec == CfgInit /\ [][CfgNext]_vars

\* the greatest element of S below q, or 0
LastBelow(S, q) ==
    LET B == {i \in S : i < q}
    IN  IF B = {} THEN 0 ELSE CHOOSE i \in B : \A j \in B : j <= i

\* the label that is current at position q of v
KeyAt(v, q) == v[LastBelow(Labels(v), q)].id

\* C7: for a vector that begins with a Label, the block inserted at a Term
\* is keyed by the last Label before it and holds, in order, the Inner
\* entries since the previous Term or the start, Labels in between or not;
\* the mapping keeps, per key, the block of the last such Term, so a Label
\* that no Term follows before the next Label gets no block of its own.  A
\* vector that is empty or begins otherwise gives the empty mapping.
C7_TermToLastLabel ==
    pc = "built" =>
        IF tv = <<>> \/ tv[1].tag # "Label"
        THEN block = EmptyMap
        ELSE /\ DOMAIN block = {KeyAt(tv, q) : q \in Terms(tv)}
             /\ \A q \in Terms(tv) :
                   (\A t \in Terms(tv) : t > q => KeyAt(tv, t) # KeyAt(tv, q))
                   => block[KeyAt(tv, q)] =
                         Block(InnerBetween(tv, LastBelow(Terms(tv), q), q),
                               tv[q].term)

\* Label a, an instruction, Label b, an instruction, a Term: block b holds
\* both instructions and a has no block
C7_Witness ==
    /\ pc = "built"
    /\ tv = <<Label("a"), Inner(IRead("x")), Label("b"), Inner(IPrint("x")),
              Term(Exit)>>
    /\ DOMAIN block = {"b"}
    /\ block["b"].insn = <<IRead("x"), IPrint("x")>>

---------------------------------------------------------------------------
(* The parser.  A token is its kind and its text; an identifier is         *)
(* represented by its text.  The parser value is the record of its one     *)
(* field, tokens, the rest of the input in reverse order.  A result is     *)
(* Ok(value) or Err(message); both carry the parser as the call left it.   *)

Tok(kind, text) == [kind |-> kind, text |-> text]

Ok(v, p) == [ok |-> TRUE, val |-> v, p |-> p]
Err(msg, p) == [ok |-> FALSE, err |-> msg, p |-> p]

\* the literals of the model
Lits == {0, 3, 7}

\* str::parse on the text of a Num token.  The texts of the model are the
\* decimal numerals of Lits without sign or leading zeros; a numeral beyond
\* the integer width, on which unwrap panics, is not among them.
ParseNum(text) == CHOOSE n \in Lits : ToString(n) = text

Reverse(v) == [i \in 1..Len(v) |-> v[Len(v) + 1 - i]]

\* Parser::new
Parser_new(toks) == [tokens |-> Reverse(toks)]

\* self.tokens.pop()
pop(p) == [p EXCEPT !.tokens = SubSeq(@, 1, Len(@) - 1)]

\* Parser::next
next(p) ==
    IF p.tokens = <<>>
    THEN Err("Unexpected end of input.", p)
    ELSE Ok(p.tokens[Len(p.tokens)], pop(p))

\* Parser::next_is
next_is(p, kind) ==
    /\ p.tokens # <<>>
    /\ p.tokens[Len(p.tokens)].kind = kind

\* Parser::eat
eat(p, kind) ==
    IF next_is(p, kind)
    THEN [ate |-> TRUE, p |-> pop(p)]
    ELSE [ate |-> FALSE, p |-> p]

\* expect that takes the next token whatever its kind
expect_any(p, kind) == next(p)

\* Parser::expect
expect(p, kind) ==
    IF next_is(p, kind)
    THEN next(p)
    ELSE IF p.tokens # <<>>
         THEN Err("Expected a token with kind " \o kind
                  \o ", found a token with kind " \o p.tokens[Len(p.tokens)].kind
                  \o " and text '" \o p.tokens[Len(p.tokens)].text \o "'.", p)
         ELSE Err("Expected a token with kind " \o kind
                  \o " but reached the end of input.", p)

\* the ? operator: an Err returns at once, an Ok value goes on
Try(r, K(_)) == IF r.ok THEN K(r) ELSE r

RECURSIVE parse_expr(_)

\* parse_binop with the operands stored in the wrong fields
parse_binop_swapped(p, op) ==
    Try(parse_expr(p), LAMBDA l :
    Try(parse_expr(l.p), LAMBDA r :
    Ok(BinOp(op, r.val, l.val), r.p)))

\* Parser::parse_binop
parse_binop(p, op) ==
    Try(parse_expr(p), LAMBDA l :
    Try(parse_expr(l.p), LAMBDA r :
    Ok(BinOp(op, l.val, r.val), r.p)))

\* Parser::parse_expr
parse_expr(p) ==
    Try(next(p), LAMBDA n :
        CASE n.val.kind = "Id" -> Ok(Var(n.val.text), n.p)
          [] n.val.kind = "Num" -> Ok(Const(ParseNum(n.val.text)), n.p)
          [] n.val.kind = "Plus" -> parse_binop(n.p, "Add")
          [] n.val.kind = "Minus" -> parse_binop(n.p, "Sub")
          [] n.val.kind = "Mul" -> parse_binop(n.p, "Mul")
          [] n.val.kind = "Div" -> parse_binop(n.p, "Div")
          [] n.val.kind = "Lt" -> parse_binop(n.p, "Lt")
          [] n.val.kind = "Tilde" ->
                Try(parse_expr(n.p), LAMBDA r : Ok(Negate(r.val), r.p))
          [] OTHER ->
                Err("Expected start of a statement, found " \o n.val.text, n.p))

RECURSIVE parse_stmt(_)
RECURSIVE block_loop(_, _)

\* Parser::parse_block
parse_block(p) ==
    Try(expect(p, "LBrace"), LAMBDA b : block_loop(b.p, <<>>))

\* the loop of parse_block: statements up to the closing brace
block_loop(p, stmts) ==
    IF eat(p, "RBrace").ate
    THEN Ok(stmts, eat(p, "RBrace").p)
    ELSE Try(parse_stmt(p), LAMBDA r : block_loop(r.p, Append(stmts, r.val)))

\* Parser::parse_stmt
parse_stmt(p) ==
    Try(next(p), LAMBDA n :
        CASE n.val.kind = "Assign" ->
                Try(expect(n.p, "Id"), LAMBDA l :
                Try(parse_expr(l.p), LAMBDA r :
                Ok(Assign(l.val.text, r.val), r.p)))
          [] n.val.kind = "Print" ->
                Try(parse_expr(n.p), LAMBDA r : Ok(SPrint(r.val), r.p))
          [] n.val.kind = "Read" ->
                Try(expect(n.p, "Id"), LAMBDA l : Ok(Read(l.val.text), l.p))
          [] n.val.kind = "If" ->
                Try(parse_expr(n.p), LAMBDA g :
                Try(parse_block(g.p), LAMBDA t :
                Try(parse_block(t.p), LAMBDA f :
                Ok(If(g.val, t.val, f.val), f.p))))
          [] OTHER ->
                Err("Expected start of a statement, found " \o n.val.text, n.p))

\* the loop of parse_program: statements up to the end of the input
RECURSIVE program_loop(_, _)
program_loop(p, stmts) ==
    IF p.tokens = <<>>
    THEN Ok([stmts |-> stmts], p)
    ELSE Try(parse_stmt(p), LAMBDA r : program_loop(r.p, Append(stmts, r.val)))

\* Parser::parse_program
parse_program(p) == program_loop(p, <<>>)

\* parse, from the tokens of its input on; rest is parser.tokens at the end
parse(toks) ==
    LET r == parse_program(Parser_new(toks))
    IN  IF ~r.ok
        THEN [res |-> [ok |-> FALSE, err |-> r.err], rest |-> r.p.tokens]
        ELSE IF r.p.tokens # <<>>
             THEN [res |-> [ok |-> FALSE,
                            err |-> "There are still leftover tokens after reading a whole program."],
                   rest |-> r.p.tokens]
             ELSE [res |-> [ok |-> TRUE, program |-> r.val], rest |-> r.p.tokens]

---------------------------------------------------------------------------
(* The inputs of the parser: token streams written from a program tree in  *)
(* prefix notation, such streams damaged, and all short token streams      *)

\* the longest token stream tried token by token
MaxTokens == 4

OpTok(op) ==
    CASE op = "Add" -> Tok("Plus", "+")
      [] op = "Sub" -> Tok("Minus", "-")
      [] op = "Mul" -> Tok("Mul", "*")
      [] op = "Div" -> Tok("Div", "/")
      [] op = "Lt" -> Tok("Lt", "<")

\* an expression in prefix notation: operator, left operand, right operand
RECURSIVE SerExpr(_)
SerExpr(e) ==
    CASE e.kind = "Var" -> <<Tok("Id", e.name)>>
      [] e.kind = "Const" -> <<Tok("Num", ToString(e.val))>>
      [] e.kind = "BinOp" -> <<OpTok(e.op)>> \o SerExpr(e.lhs) \o SerExpr(e.rhs)
      [] e.kind = "Negate" -> <<Tok("Tilde", "~")>> \o SerExpr(e.e)

\* statements: the keyword, then the operands; an If as its guard and its
\* two braced blocks
RECURSIVE SerStmts(_)
SerStmt(s) ==
    CASE s.kind = "Assign" -> <<Tok("Assign", ":="), Tok("Id", s.dst)>> \o SerExpr(s.e)
      [] s.kind = "Print" -> <<Tok("Print", "$print")>> \o SerExpr(s.e)
      [] s.kind = "Read" -> <<Tok("Read", "$read"), Tok("Id", s.x)>>
      [] s.kind = "If" ->
            <<Tok("If", "$if")>> \o SerExpr(s.guard)
            \o <<Tok("LBrace", "{")>> \o SerStmts(s.tt) \o <<Tok("RBrace", "}")>>
            \o <<Tok("LBrace", "{")>> \o SerStmts(s.ff) \o <<Tok("RBrace", "}")>>

SerStmts(ss) ==
    IF ss = <<>> THEN <<>> ELSE SerStmt(Head(ss)) \o SerStmts(Tail(ss))

\* one token of every kind
AnyToken ==
    {Tok("Assign", ":="), Tok("Print", "$print"), Tok("Read", "$read"),
     Tok("If", "$if"), Tok("Id", "x"), Tok("Num", "3"),
     Tok("Plus", "+"), Tok("Minus", "-"), Tok("Mul", "*"), Tok("Div", "/"),
     Tok("Lt", "<"), Tok("Tilde", "~"), Tok("LBrace", "{"), Tok("RBrace", "}")}

PLeaves == {Var("x"), Const(3)}

PExprs ==
    PLeaves
    \cup {BinOp(op, a, b) : op \in BOps, a \in PLeaves, b \in PLeaves}
    \cup {Negate(a) : a \in PLeaves}
    \cup {BinOp("Mul", BinOp("Add", Var("x"), Const(3)),
                       BinOp("Div", Negate(Const(7)), Var("y")))}

PSimple ==
    {Assign("x", e) : e \in PExprs} \cup {SPrint(e) : e \in PExprs} \cup {Read("x")}

PSmall == {SPrint(Const(0)), Assign("x", Const(3)), Read("x")}

PBranches ==
    {<<>>, <<SPrint(Const(0))>>, <<Assign("x", Const(3))>>,
     <<SPrint(Const(0)), Read("x")>>}

PGuards == {Var("x"), BinOp("Lt", Var("x"), Var("y"))}

PIfs == {If(g, tt, ff) : g \in PGuards, tt \in PBranches, ff \in PBranches}

PNested ==
    {If(Var("x"), <<i>>, <<>>) : i \in PIfs}
    \cup {If(Negate(Var("x")), <<Read("x")>>, <<i, Read("y")>>) : i \in PIfs}

PStmts == PSimple \cup PIfs \cup PNested

\* the program trees written out as token streams
ParseTrees ==
    {<<>>} \cup {<<s>> : s \in PStmts}
    \cup {<<s, Read("x")>> : s \in PStmts}
    \cup {<<SPrint(Const(0)), s>> : s \in PIfs}

ParseInit ==
    /\ pc = "input"
    /\ input = <<>> /\ tokens = <<>> /\ result = [ok |-> FALSE, err |-> ""]
    /\ tree = <<>> /\ via = "lexed"
    /\ tv = <<>> /\ block = EmptyMap
    /\ decl = {} /\ fresh_ctr = 0 /\ bb_ctr = 0
    /\ stack = <<>> /\ prog = <<>> /\ ifs = <<>>

\* the input grows by a token of any kind
LexToken ==
    /\ pc = "input" /\ via = "lexed" /\ Len(input) < MaxTokens
    /\ \E t \in AnyToken : input' = Append(input, t)
    /\ UNCHANGED <<pc, tokens, result, tree, via, tv, block, lowerVars>>

\* the input is a program tree written in prefix notation
WriteTree ==
    /\ pc = "input" /\ via = "lexed" /\ input = <<>>
    /\ \E t \in ParseTrees \ {<<>>} :
          /\ tree' = t
          /\ input' = SerStmts(t)
    /\ via' = "written"
    /\ UNCHANGED <<pc, tokens, result, tv, block, lowerVars>>

\* a written input loses its end
Truncate ==
    /\ pc = "input" /\ via = "written"
    /\ \E k \in 1..(Len(input) - 1) : input' = SubSeq(input, 1, k)
    /\ via' = "truncated"
    /\ UNCHANGED <<pc, tokens, result, tree, tv, block, lowerVars>>

\* a written input is followed by one more token
Trail ==
    /\ pc = "input" /\ via = "written"
    /\ \E t \in AnyToken : input' = Append(input, t)
    /\ via' = "trailing"
    /\ UNCHANGED <<pc, tokens, result, tree, tv, block, lowerVars>>

\* a written input has one token replaced by a token of another kind
Replace ==
    /\ pc = "input" /\ via = "written"
    /\ \E i \in 1..Len(input), t \in AnyToken :
          /\ t.kind # input[i].kind
          /\ input' = [input EXCEPT ![i] = t]
    /\ via' = "replaced"
    /\ UNCHANGED <<pc, tokens, result, tree, tv, block, lowerVars>>

\* parse(input)
Parse ==
    /\ pc = "input"
    /\ LET r == parse(input)
       IN  /\ result' = r.res
           /\ tokens' = r.rest
    /\ pc' = "parsed"
    /\ UNCHANGED <<input, tree, via, tv, block, lowerVars>>

ParseNext ==
    \/ LexToken
    \/ WriteTree
    \/ Truncate
    \/ Trail
    \/ Replace
    \/ Parse

ParseSpec == ParseInit /\ [][ParseNext]_vars

\* C8: parsing the prefix-notation token stream of a program tree returns Ok
\* with exactly that tree, statements and operands in their order.
C8_ParseInvertsWrite ==
    (pc = "parsed" /\ via = "written") =>
        /\ result = [ok |-> TRUE, program |-> [stmts |-> tree]]
        /\ tokens = <<>>

\* the inputs of tests::if_test and tests::complex_expr, parsed
C8_Witness ==
    /\ pc = "parsed" /\ via = "written"
    /\ result.ok
    /\ \/ tree = <<If(BinOp("Lt", Var("x"), Var("y")),
                      <<SPrint(Const(0))>>, <<Assign("x", Const(3))>>)>>
       \/ tree = <<SPrint(BinOp("Mul", BinOp("Add", Var("x"), Const(3)),
                                BinOp("Div", Negate(Const(7)), Var("y"))))>>

\* the lengths at which a statement of ss ends, and 0
Boundaries(ss) == {Len(SerStmts(SubSeq(ss, 1, k))) : k \in 0..Len(ss)}

===========================================================================
